---- MODULE Spec2Model ----
(***************************************************************************)
(* Model of deploy.py: the Terraform + Ansible deployment script.          *)
(*                                                                         *)
(* A run of the script is a sequential program.  Its position is pc, its   *)
(* inputs (command line, operator answers, exit codes of the external      *)
(* tools, outcomes of the connection attempts) are chosen nondeter-        *)
(* ministically, and every external operation and every log message a      *)
(* claim speaks about is appended to trace in program order.               *)
(*                                                                         *)
(* Text (the inventory file, the instance address, the secret) is a        *)
(* sequence of one-character strings.  The two field names are single      *)
(* characters of that alphabet: "H" stands for the literal text            *)
(* ansible_host: and "P" for ansible_password:.                            *)
(***************************************************************************)
EXTENDS Integers, Sequences, FiniteSets, TLC

VARIABLES
    pc,            \* position of the run in deploy.py
    args,          \* parsed command line
    key_exists,    \* terraform/dc-automation-key and .pub both exist
    tfvars_exists, \* terraform/terraform.tfvars exists
    template,      \* content of terraform/terraform.tfvars.example
    tfvars,        \* content of terraform/terraform.tfvars
    hosts_yml,     \* content of ansible/inventory/hosts.yml on disk
    inv_readable,  \* open(inventory_path, "r") succeeds
    trace,         \* external operations and log messages, in program order
    exit_code,     \* NoExit while running, else the process exit status
    attempt,       \* loop variable of test_winrm_connectivity
    result,        \* outcome of the latest connection attempt
    winrm_ready,   \* return value of test_winrm_connectivity
    confirm,       \* the operator's latest answer to a confirmation prompt
    instance_ip,   \* deploy_infrastructure's first result
    instance_id,   \* deploy_infrastructure's second result
    password,      \* local of configure_with_ansible
    content,       \* local of configure_with_ansible
    retry_count,   \* local of configure_with_ansible
    success,       \* local of configure_with_ansible
    hosts_yml0,    \* the inventory as it was when the run started
    hosts_yml1,    \* the inventory after the first edit applied to it
    edits          \* number of times the inventory edit was written back

vars == <<pc, args, key_exists, tfvars_exists, template, tfvars, hosts_yml,
          inv_readable, trace,
          exit_code, attempt, result, winrm_ready, confirm, instance_ip,
          instance_id, password, content, retry_count, success, hosts_yml0,
          hosts_yml1, edits>>

\* what a run never changes
inputs == <<args, inv_readable, hosts_yml0, template>>
\* the files a run may change
files == <<key_exists, tfvars_exists, tfvars, hosts_yml, hosts_yml1, edits>>
\* state of test_winrm_connectivity
probe == <<attempt, result, winrm_ready>>
\* operator answer and results of deploy_infrastructure
prov == <<confirm, instance_ip, instance_id>>
\* locals of configure_with_ansible
conf == <<password, content, retry_count, success>>

---------------------------------------------------------------------------
(* Bounds of the model *)

\* longest inventory, in lines, the edit is checked on
MaxLines == 3

\* most lines a template has besides its five assignments
MaxExtraLines == 1

---------------------------------------------------------------------------
(* Text helpers *)

NL == "\n"
QUOTE == "\""
BACKSLASH == "\\"

\* \s of the two patterns
Space == {" ", NL}
\* [\d\.] of the host pattern
DigitDot == {"1", "2", "."}
\* ASCII letters of the alphabet ("H" and "P" begin with the letter a)
Letters == {"a", "b", "n", "s", "t", "H", "P"}

RECURSIVE Join(_)
\* the lines of a file joined by newlines
Join(lines) ==
    IF Len(lines) = 0 THEN <<>>
    ELSE IF Len(lines) = 1 THEN lines[1]
    ELSE lines[1] \o <<NL>> \o Join(Tail(lines))

\* str.count for a single character
Count(s, c) == Cardinality({i \in 1..Len(s) : s[i] = c})

\* x in s, for a one-character x
Contains(s, c) == \E i \in 1..Len(s) : s[i] = c

RECURSIVE LStrip(_)
LStrip(s) == IF Len(s) > 0 /\ s[1] \in {" ", NL} THEN LStrip(Tail(s)) ELSE s

RECURSIVE RStrip(_)
RStrip(s) ==
    IF Len(s) > 0 /\ s[Len(s)] \in {" ", NL}
    THEN RStrip(SubSeq(s, 1, Len(s) - 1)) ELSE s

\* str.strip()
Strip(s) == RStrip(LStrip(s))

\* str.lower() on the answers the operator can give
Lower(a) == IF a = "Y" THEN "y" ELSE IF a = "N" THEN "n" ELSE a

---------------------------------------------------------------------------
(* re.sub as configure_with_ansible uses it *)

\* ^ under re.MULTILINE: start of the text or just after a newline
AtLineStart(s, i) == i = 1 \/ s[i-1] = NL

RECURSIVE RunEnd(_, _, _)
\* index just after the longest run of characters of cls that starts at i
RunEnd(s, i, cls) ==
    IF i <= Len(s) /\ s[i] \in cls THEN RunEnd(s, i + 1, cls) ELSE i

\* group 1, (^\s+key\s+), matched at i: the index just after it, 0 if none.
\* Neither the key nor what follows it is whitespace, so each \s+ takes the
\* whole run of whitespace.
PrefixEnd(s, i, key) ==
    IF ~AtLineStart(s, i) THEN 0
    ELSE LET j == RunEnd(s, i, Space) IN
         IF j = i \/ j > Len(s) \/ s[j] # key THEN 0
         ELSE LET k == RunEnd(s, j + 1, Space) IN
              IF k = j + 1 THEN 0 ELSE k

\* (^\s+ansible_host:\s+)[\d\.]+ matched at i: the index just after the
\* match, 0 if none
HostMatchEnd(s, i) ==
    LET k == PrefixEnd(s, i, "H") IN
    IF k = 0 THEN 0
    ELSE LET e == RunEnd(s, k, DigitDot) IN IF e = k THEN 0 ELSE e

\* (^\s+ansible_password:\s+)"[^"]*" matched at i: the index just after the
\* match, 0 if none.  [^"] matches a newline as well.
PasswordMatchEnd(s, i) ==
    LET k == PrefixEnd(s, i, "P") IN
    IF k = 0 \/ k > Len(s) THEN 0
    ELSE IF s[k] # QUOTE THEN 0
    ELSE LET q == RunEnd(s, k + 1, {c \in {s[x] : x \in 1..Len(s)} : c # QUOTE}) IN
         IF q > Len(s) THEN 0 ELSE q + 1

MatchEnd(s, i, key) ==
    IF key = "H" THEN HostMatchEnd(s, i) ELSE PasswordMatchEnd(s, i)

BadTemplate == <<"re.error">>

RECURSIVE ExpandTemplate(_)
\* The literal part of a replacement template as re.sub expands it:
\* backslash-n is a newline, a doubled backslash is one backslash, a
\* backslash before another letter is a bad escape, a backslash before a
\* character that is no letter stays as it is, and a backslash at the end
\* of the template is an error.  (Group numbers after a backslash are
\* outside the alphabet of the secrets.)
ExpandTemplate(t) ==
    IF Len(t) = 0 THEN <<>>
    ELSE IF t[1] # BACKSLASH THEN
        LET rest == ExpandTemplate(Tail(t)) IN
        IF rest = BadTemplate THEN BadTemplate ELSE <<t[1]>> \o rest
    ELSE IF Len(t) = 1 THEN BadTemplate
    ELSE LET rest == ExpandTemplate(SubSeq(t, 3, Len(t))) IN
         IF rest = BadTemplate THEN BadTemplate
         ELSE IF t[2] = "n" THEN <<NL>> \o rest
         ELSE IF t[2] = BACKSLASH THEN <<BACKSLASH>> \o rest
         ELSE IF t[2] \in Letters THEN BadTemplate
         ELSE <<t[1], t[2]>> \o rest

RECURSIVE SubFrom(_, _, _, _)
\* re.sub from position i on: every match, leftmost first and not
\* overlapping, is replaced by group 1 followed by repl
SubFrom(s, i, key, repl) ==
    IF i > Len(s) THEN <<>>
    ELSE LET e == MatchEnd(s, i, key) IN
         IF e = 0 THEN <<s[i]>> \o SubFrom(s, i + 1, key, repl)
         ELSE SubSeq(s, i, PrefixEnd(s, i, key) - 1) \o repl
                  \o SubFrom(s, e, key, repl)

\* re.sub(r'(^\s+ansible_host:\s+)[\d\.]+', f'\\g<1>{instance_ip}', ...)
SubAnsibleHost(s, ip) ==
    LET repl == ExpandTemplate(ip) IN
    IF repl = BadTemplate THEN BadTemplate ELSE SubFrom(s, 1, "H", repl)

\* re.sub(r'(^\s+ansible_password:\s+)"[^"]*"', f'\\g<1>"{password}"', ...)
SubAnsiblePassword(s, pw) ==
    LET repl == ExpandTemplate(<<QUOTE>> \o pw \o <<QUOTE>>) IN
    IF repl = BadTemplate THEN BadTemplate ELSE SubFrom(s, 1, "P", repl)

\* the two replacements in the order of the code; BadTemplate if either
\* raises re.error
UpdateInventory(s, ip, pw) ==
    LET c1 == SubAnsibleHost(s, ip) IN
    IF c1 = BadTemplate THEN BadTemplate ELSE SubAnsiblePassword(c1, pw)

---------------------------------------------------------------------------
(* The variables file.  Its text is a sequence of words: a word such as    *)
(* "environment = " is the field name with its equals sign, and the word   *)
(* after it is the value as it is written in the file ("dev" stands for    *)
(* the quoted text "dev", false for the bare word false).                  *)

RECURSIVE Replace(_, _, _)
\* str.replace(old, new): every occurrence, leftmost first, not overlapping
Replace(s, old, new) ==
    IF Len(s) < Len(old) THEN s
    ELSE IF SubSeq(s, 1, Len(old)) = old
    THEN new \o Replace(SubSeq(s, Len(old) + 1, Len(s)), old, new)
    ELSE <<s[1]>> \o Replace(Tail(s), old, new)

\* str(flag).lower()
BoolText(flag) == IF flag THEN "true" ELSE "false"

\* lines 161-165: the five replacements of a default by the request's value
SubstituteTfvars(t, a) ==
    LET t1 == Replace(t, <<"environment = ", "dev">>,
                         <<"environment = ", a.environment>>)
        t2 == Replace(t1, <<"aws_region = ", "us-east-1">>,
                          <<"aws_region = ", a.region>>)
        t3 == Replace(t2, <<"instance_type = ", "t3a.medium">>,
                          <<"instance_type = ", a.instance_type>>)
        t4 == Replace(t3, <<"use_elastic_ip = ", "false">>,
                          <<"use_elastic_ip = ", BoolText(a.elastic_ip)>>)
    IN  Replace(t4, <<"create_rds = ", "false">>,
                    <<"create_rds = ", BoolText(a.create_rds)>>)

\* the five fields with their defaults, in the order of a template
TfvarsDefaults ==
    << <<"aws_region = ", "us-east-1">>, <<"environment = ", "dev">>,
       <<"instance_type = ", "t3a.medium">>, <<"use_elastic_ip = ", "false">>,
       <<"create_rds = ", "false">> >>

\* a comment line
CommentLine == <<"# comment">>

\* the template as the script expects it: a comment and the five defaults
DefaultTemplate == Join(<<CommentLine>> \o TfvarsDefaults)

---------------------------------------------------------------------------
(* Inputs of a run *)

NoExit == -1

\* a line of an inventory: all:
KeyLine == <<"a">>
\*   ansible_host: 1
HostLine == <<" ", "H", " ", "1">>
\*   ansible_password: "s"
PasswordLine == <<" ", "P", " ", QUOTE, "s", QUOTE>>

\* the inventories a run starts from: one host, one host without a secret
\* field, two hosts
RunInventories ==
    { Join(<<KeyLine, HostLine, PasswordLine>>),
      Join(<<KeyLine, HostLine>>),
      Join(<<HostLine, PasswordLine, HostLine, PasswordLine>>) }

\* what terraform output -raw instance_public_ip can print
RunHostOutputs == { <<"2">>, <<"2", ".", "1", NL>> }

\* what aws ec2 get-password-data can print: a secret, nothing, a secret
\* with a backslash before a letter
RunSecretOutputs == { <<"t", NL>>, <<NL>>, <<"t", BACKSLASH, "s", NL>> }

\* what the operator can type at a (y/N) prompt
Answers == {"y", "Y", "n", ""}

\* what socket.connect_ex can do: return 0, return an error number, raise
ConnectOutcomes == {"open", "closed", "raise"}

Init ==
    /\ pc = "check_terraform"
    /\ args \in [action : {"deploy", "destroy", "ansible-only"},
                 force : BOOLEAN, skip_ansible : BOOLEAN,
                 environment : {"staging"}, region : {"eu-west-1"},
                 instance_type : {"t3a.medium"},
                 elastic_ip : {FALSE}, create_rds : {TRUE}]
    /\ key_exists \in BOOLEAN
    /\ tfvars_exists \in BOOLEAN
    /\ template = DefaultTemplate
    /\ tfvars = IF tfvars_exists THEN DefaultTemplate ELSE <<>>
    /\ hosts_yml \in RunInventories
    /\ inv_readable \in BOOLEAN
    /\ trace = <<>>
    /\ exit_code = NoExit
    /\ attempt = 0
    /\ result = "none"
    /\ winrm_ready = FALSE
    /\ confirm = "none"
    /\ instance_ip = <<>>
    /\ instance_id = <<>>
    /\ password = <<>>
    /\ content = <<>>
    /\ retry_count = 0
    /\ success = FALSE
    /\ hosts_yml0 = hosts_yml
    /\ hosts_yml1 = hosts_yml
    /\ edits = 0

---------------------------------------------------------------------------
(* Steps of the program *)

\* the run goes on at next after the events evs
Step(next, evs) ==
    /\ pc' = next
    /\ trace' = trace \o evs
    /\ exit_code' = exit_code

\* sys.exit(code) after the events evs
Exit(code, evs) ==
    /\ pc' = "exited"
    /\ trace' = trace \o evs
    /\ exit_code' = code

\* run_command without its sys.exit(1): the failure is logged and the run
\* goes on
RunCommand_NoExit(cmd, ok, next, evs) ==
    IF ok THEN Step(next, <<cmd>> \o evs)
    ELSE Step(next, <<cmd, "log:Command failed">>)

\* run_command outside a try block: a command that exits non-zero ends the
\* process with status 1
RunCommand(cmd, ok, next, evs) ==
    IF ok THEN Step(next, <<cmd>> \o evs)
    ELSE Exit(1, <<cmd, "log:Command failed">>)

---------------------------------------------------------------------------
(* check_prerequisites *)

\* a check that logs its failure and lets the run go on
PrerequisiteCheck_NoExit(cmd, ok, next, oklog, faillog) ==
    IF ok THEN Step(next, <<cmd, oklog>>)
    ELSE Step(next, <<cmd, "log:Command failed", faillog>>)

\* A check runs run_command inside try/except with a bare except, which
\* catches the SystemExit of run_command, logs and exits with 1 again.
PrerequisiteCheck(cmd, ok, next, oklog, faillog) ==
    IF ok THEN Step(next, <<cmd, oklog>>)
    ELSE Exit(1, <<cmd, "log:Command failed", faillog>>)

CheckTerraform ==
    /\ pc = "check_terraform"
    /\ \E ok \in BOOLEAN :
          PrerequisiteCheck("terraform --version", ok, "check_ansible",
                            "log:Terraform version", "log:Terraform not found")
    /\ UNCHANGED <<inputs, files, probe, prov, conf>>

CheckAnsible ==
    /\ pc = "check_ansible"
    /\ \E ok \in BOOLEAN :
          PrerequisiteCheck("ansible --version", ok, "check_aws",
                            "log:Ansible version", "log:Ansible not found")
    /\ UNCHANGED <<inputs, files, probe, prov, conf>>

CheckAws ==
    /\ pc = "check_aws"
    /\ \E ok \in BOOLEAN :
          PrerequisiteCheck("aws sts get-caller-identity", ok, "check_key",
                            "log:AWS credentials valid",
                            "log:AWS credentials not configured")
    /\ UNCHANGED <<inputs, files, probe, prov, conf>>

\* where main goes after check_prerequisites
ActionEntry(action) ==
    IF action = "deploy" THEN "tf_init"
    ELSE IF action = "destroy" THEN "destroy_confirm"
    ELSE "ansible_only"

CheckSshKey ==
    /\ pc = "check_key"
    /\ IF key_exists
       THEN /\ Step(ActionEntry(args.action), <<>>)
            /\ UNCHANGED key_exists
       ELSE \E ok \in BOOLEAN :
            /\ IF ok
               THEN Step(ActionEntry(args.action),
                         <<"log:SSH key pair not found", "ssh-keygen",
                           "log:SSH key pair generated">>)
               ELSE Exit(1, <<"log:SSH key pair not found", "ssh-keygen",
                              "log:Command failed">>)
            /\ key_exists' = ok
    /\ UNCHANGED <<inputs, tfvars_exists, tfvars, hosts_yml, hosts_yml1, edits,
                   probe, prov, conf>>

---------------------------------------------------------------------------
(* deploy_infrastructure *)

TerraformInit ==
    /\ pc = "tf_init"
    /\ \E ok \in BOOLEAN : RunCommand("terraform init", ok, "tfvars", <<>>)
    /\ UNCHANGED <<inputs, files, probe, prov, conf>>

\* lines 153-172: the variables file is derived from the template only if
\* it does not exist, and the review prompt is shown only without force
PrepareTfvars ==
    /\ pc = "tfvars"
    /\ IF tfvars_exists
       THEN /\ Step("tf_plan", <<>>)
            /\ UNCHANGED tfvars
       ELSE /\ Step(IF args.force THEN "tf_plan" ELSE "review_prompt",
                    <<"read terraform.tfvars.example", "write terraform.tfvars",
                      "log:Please review terraform.tfvars">>)
            /\ tfvars' = SubstituteTfvars(template, args)
    /\ tfvars_exists' = TRUE
    /\ UNCHANGED <<inputs, key_exists, hosts_yml, hosts_yml1, edits, probe,
                   prov, conf>>

ReviewPrompt ==
    /\ pc = "review_prompt"
    /\ Step("tf_plan", <<"input:review">>)
    /\ UNCHANGED <<inputs, files, probe, prov, conf>>

\* a plan that is always followed by the confirmation
AfterPlan_AlwaysAsks(force) == "apply_prompt"

\* line 178: the apply confirmation is asked unless force is set
AfterPlan(force) == IF force THEN "tf_apply" ELSE "apply_prompt"

TerraformPlan ==
    /\ pc = "tf_plan"
    /\ \E ok \in BOOLEAN :
          RunCommand("terraform plan", ok, AfterPlan(args.force), <<>>)
    /\ UNCHANGED <<inputs, files, probe, prov, conf>>

\* a prompt that takes everything but n for a yes
Confirmed_UnlessNo(answer) == Lower(answer) # "n"

\* confirm.lower() != 'y' is a refusal
Confirmed(answer) == Lower(answer) = "y"

ConfirmApply ==
    /\ pc = "apply_prompt"
    /\ \E answer \in Answers :
          /\ confirm' = answer
          /\ IF Confirmed(answer)
             THEN Step("tf_apply", <<"input:apply">>)
             ELSE Exit(0, <<"input:apply", "log:Deployment cancelled by user">>)
    /\ UNCHANGED <<inputs, files, probe, instance_ip, instance_id, conf>>

TerraformApply ==
    /\ pc = "tf_apply"
    /\ \E ok \in BOOLEAN : RunCommand("terraform apply", ok, "output_ip", <<>>)
    /\ UNCHANGED <<inputs, files, probe, prov, conf>>

OutputInstanceIp ==
    /\ pc = "output_ip"
    /\ \E ok \in BOOLEAN :
          /\ RunCommand("terraform output instance_public_ip", ok,
                        "output_id", <<>>)
          /\ IF ok
             THEN \E out \in RunHostOutputs : instance_ip' = Strip(out)
             ELSE UNCHANGED instance_ip
    /\ UNCHANGED <<inputs, files, probe, confirm, instance_id, conf>>

OutputInstanceId ==
    /\ pc = "output_id"
    /\ \E ok \in BOOLEAN :
          /\ RunCommand("terraform output instance_id", ok, "deployed",
                        <<"log:Infrastructure deployed successfully">>)
          /\ instance_id' = IF ok THEN Strip(<<"i", NL>>) ELSE instance_id
    /\ UNCHANGED <<inputs, files, probe, confirm, instance_ip, conf>>

\* main, lines 419-422: back from deploy_infrastructure
Deployed ==
    /\ pc = "deployed"
    /\ Step(IF args.skip_ansible THEN "main_end" ELSE "winrm_attempt", <<>>)
    /\ attempt' = IF args.skip_ansible THEN attempt ELSE 1
    /\ UNCHANGED <<inputs, files, result, winrm_ready, prov, conf>>

---------------------------------------------------------------------------
(* test_winrm_connectivity *)

max_attempts == 20

\* range(1, max_attempts): one attempt too few
InRange_Short(a) == a < max_attempts

\* range(1, max_attempts + 1)
InRange(a) == a <= max_attempts

\* line 135: if attempt < max_attempts
SleepsAfter(a) == a < max_attempts

\* a successful attempt that does not return: the loop goes on
AfterSuccess_NoReturn == "winrm_wait"

\* lines 124-129: return True leaves the loop
AfterSuccess == "winrm_return"

\* lines 116-133: one connection attempt; success returns True at once, an
\* error number and an exception are both logged and the loop goes on
WinrmAttempt ==
    /\ pc = "winrm_attempt"
    /\ \E outcome \in ConnectOutcomes :
          /\ result' = outcome
          /\ IF outcome = "open"
             THEN /\ Step(AfterSuccess, <<"connect", "log:WinRM is ready">>)
                  /\ winrm_ready' = TRUE
             ELSE /\ Step("winrm_wait", <<"connect", "log:Not ready yet">>)
                  /\ UNCHANGED winrm_ready
    /\ UNCHANGED <<inputs, files, attempt, prov, conf>>

\* lines 135-136 and the advance of the for loop
WinrmWait ==
    /\ pc = "winrm_wait"
    /\ Step(IF InRange(attempt + 1) THEN "winrm_attempt" ELSE "winrm_give_up",
            IF SleepsAfter(attempt) THEN <<"sleep:poll">> ELSE <<>>)
    /\ attempt' = IF InRange(attempt + 1) THEN attempt + 1 ELSE attempt
    /\ UNCHANGED <<inputs, files, result, winrm_ready, prov, conf>>

\* lines 138-140
WinrmGiveUp ==
    /\ pc = "winrm_give_up"
    /\ Step("winrm_return", <<"log:Instance not ready after max_attempts">>)
    /\ winrm_ready' = FALSE
    /\ UNCHANGED <<inputs, files, attempt, result, prov, conf>>

---------------------------------------------------------------------------
(* configure_with_ansible *)

max_retries == 2

\* a caller that ignores the result of the prober
SkipsConfiguration_Never(ready) == FALSE

\* line 204: if not test_winrm_connectivity(instance_ip)
SkipsConfiguration(ready) == ~ready

ConfigureStart ==
    /\ pc = "winrm_return"
    /\ IF SkipsConfiguration(winrm_ready)
       THEN Step("main_end", <<"log:Instance not ready", "log:Manual command">>)
       ELSE Step("get_password", <<>>)
    /\ UNCHANGED <<inputs, files, probe, prov, conf>>

\* a test that lets an empty secret through
HasSecret_Always(pw) == TRUE

\* line 221: if password
HasSecret(pw) == pw # <<>>

\* lines 213-222 and 308-311.  run_command exits the process when the
\* command fails: SystemExit is no Exception, so line 312 does not catch it.
GetPassword ==
    /\ pc = "get_password"
    /\ \E ok \in BOOLEAN :
          IF ~ok
          THEN /\ Exit(1, <<"aws ec2 get-password-data", "log:Command failed">>)
               /\ UNCHANGED password
          ELSE \E out \in RunSecretOutputs :
               /\ password' = Strip(out)
               /\ IF HasSecret(Strip(out))
                  THEN Step("read_inventory",
                            <<"aws ec2 get-password-data",
                              "log:Password retrieved successfully">>)
                  ELSE Step("main_end",
                            <<"aws ec2 get-password-data",
                              "log:Could not retrieve password",
                              "log:Manual password command">>)
    /\ UNCHANGED <<inputs, files, probe, prov, content, retry_count, success>>

\* lines 228-229; an exception of open() is caught at line 312
ReadInventory ==
    /\ pc = "read_inventory"
    /\ IF inv_readable
       THEN /\ Step("edit_inventory", <<"read hosts.yml">>)
            /\ content' = hosts_yml
       ELSE /\ Step("main_end", <<"log:Error retrieving password">>)
            /\ UNCHANGED content
    /\ UNCHANGED <<inputs, files, probe, prov, password, retry_count, success>>

\* lines 233-246; re.error is caught at line 312
EditInventory ==
    /\ pc = "edit_inventory"
    /\ LET new == UpdateInventory(content, instance_ip, password) IN
       IF new = BadTemplate
       THEN /\ Step("main_end", <<"log:Error retrieving password">>)
            /\ UNCHANGED content
       ELSE /\ Step("write_inventory", <<>>)
            /\ content' = new
    /\ UNCHANGED <<inputs, files, probe, prov, password, retry_count, success>>

\* lines 249-272
WriteInventory ==
    /\ pc = "write_inventory"
    /\ Step("retry_loop", <<"write hosts.yml", "log:Updated inventory",
                            "log:Starting playbook">>)
    /\ hosts_yml' = content
    /\ hosts_yml1' = IF edits = 0 THEN content ELSE hosts_yml1
    /\ edits' = edits + 1
    /\ retry_count' = 0
    /\ success' = FALSE
    /\ UNCHANGED <<inputs, key_exists, tfvars_exists, tfvars, probe, prov,
                   password, content>>

\* a loop that allows one retry too many
RetryLoopCond_OneMore(count, done) == count <= max_retries + 1 /\ ~done

\* line 274: while retry_count <= max_retries and not success
RetryLoopCond(count, done) == count <= max_retries /\ ~done

\* line 275: if retry_count > 0
Stabilizes(count) == count > 0

\* lines 274-279
RetryLoop ==
    /\ pc = "retry_loop"
    /\ IF RetryLoopCond(retry_count, success)
       THEN Step("run_playbook",
                 IF Stabilizes(retry_count)
                 THEN <<"log:Retrying playbook", "sleep:stabilize">> ELSE <<>>)
       ELSE Step("after_retry", <<>>)
    /\ UNCHANGED <<inputs, files, probe, prov, conf>>

\* the exit status of the engine as the trace records it
ReturnCode(returncode) ==
    IF returncode = 0 THEN "returncode:0" ELSE "returncode:nonzero"

\* a test that takes every status but 1 for a success
PlaybookSucceeded_NotOne(returncode) == returncode # 1

\* line 287: if result.returncode == 0
PlaybookSucceeded(returncode) == returncode = 0

\* lines 281-296
RunPlaybook ==
    /\ pc = "run_playbook"
    /\ \E returncode \in {0, 1, 2} :
          IF PlaybookSucceeded(returncode)
          THEN /\ Step("retry_loop",
                       <<"ansible-playbook", ReturnCode(returncode),
                         "log:Playbook completed successfully">>)
               /\ success' = TRUE
               /\ UNCHANGED retry_count
          ELSE /\ Step("retry_loop",
                       IF retry_count + 1 <= max_retries
                       THEN <<"ansible-playbook", ReturnCode(returncode),
                              "log:Playbook failed, will retry">>
                       ELSE <<"ansible-playbook", ReturnCode(returncode)>>)
               /\ retry_count' = retry_count + 1
               /\ UNCHANGED success
    /\ UNCHANGED <<inputs, files, probe, prov, password, content>>

\* a summary step that ends the process with status 1 when the playbook
\* never succeeded
ConfigureFinish_Fatal ==
    /\ pc = "after_retry"
    /\ IF success
       THEN Step("main_end",
                 <<"log:Deployment completed", "log:Administrator Password">>)
       ELSE Exit(1, <<"log:Playbook failed after all attempts">>)
    /\ UNCHANGED <<inputs, files, probe, prov, conf>>

\* lines 298-307: the summary is printed whether or not the playbook
\* succeeded, and the function returns to main
ConfigureFinish ==
    /\ pc = "after_retry"
    /\ Step("main_end",
            (IF success THEN <<>> ELSE <<"log:Playbook failed after all attempts">>)
            \o <<"log:Deployment completed", "log:Administrator Password">>)
    /\ UNCHANGED <<inputs, files, probe, prov, conf>>

---------------------------------------------------------------------------
(* destroy_infrastructure *)

\* a prompt whose answer is not looked at
ConfirmDestroy_Ungated ==
    /\ pc = "destroy_confirm"
    /\ IF args.force
       THEN Step("tf_destroy", <<>>) /\ UNCHANGED confirm
       ELSE \E answer \in Answers :
            /\ confirm' = answer
            /\ Step("tf_destroy", <<"input:destroy">>)
    /\ UNCHANGED <<inputs, files, probe, instance_ip, instance_id, conf>>

\* lines 319-323
ConfirmDestroy ==
    /\ pc = "destroy_confirm"
    /\ IF args.force
       THEN Step("tf_destroy", <<>>) /\ UNCHANGED confirm
       ELSE \E answer \in Answers :
            /\ confirm' = answer
            /\ IF Confirmed(answer)
               THEN Step("tf_destroy", <<"input:destroy">>)
               ELSE Exit(0, <<"input:destroy", "log:Destroy cancelled by user">>)
    /\ UNCHANGED <<inputs, files, probe, instance_ip, instance_id, conf>>

\* lines 325-329
TerraformDestroy ==
    /\ pc = "tf_destroy"
    /\ \E ok \in BOOLEAN :
          RunCommand("terraform destroy", ok, "main_end",
                     <<"log:Infrastructure destroyed successfully">>)
    /\ UNCHANGED <<inputs, files, probe, prov, conf>>

---------------------------------------------------------------------------
(* ansible_only *)

\* a check that warns about the missing field and returns to main
AnsibleOnlyCheck_Warns ==
    /\ pc = "ansible_only"
    /\ IF ~inv_readable
       THEN Exit(1, <<"traceback">>)
       ELSE IF ~Contains(hosts_yml, "P")
       THEN Step("main_end",
                 <<"read hosts.yml", "log:Password not found in inventory",
                   "log:Manually add ansible_password">>)
       ELSE Step("ansible_only_run", <<"read hosts.yml">>)
    /\ UNCHANGED <<inputs, files, probe, prov, conf>>

\* lines 336-343: open() is outside any try block, so an unreadable
\* inventory ends the process with a traceback and status 1
AnsibleOnlyCheck ==
    /\ pc = "ansible_only"
    /\ IF ~inv_readable
       THEN Exit(1, <<"traceback">>)
       ELSE IF ~Contains(hosts_yml, "P")
       THEN Exit(1, <<"read hosts.yml", "log:Password not found in inventory",
                      "log:Manually add ansible_password">>)
       ELSE Step("ansible_only_run", <<"read hosts.yml">>)
    /\ UNCHANGED <<inputs, files, probe, prov, conf>>

\* a run that ends with the status of the engine
AnsibleOnlyRun_Checked ==
    /\ pc = "ansible_only_run"
    /\ \E returncode \in {0, 1, 2} :
          IF returncode = 0
          THEN Step("main_end", <<"ansible-playbook", ReturnCode(returncode)>>)
          ELSE Exit(1, <<"ansible-playbook", ReturnCode(returncode)>>)
    /\ UNCHANGED <<inputs, files, probe, prov, conf>>

\* lines 345-356: the exit code of the playbook is not looked at
AnsibleOnlyRun ==
    /\ pc = "ansible_only_run"
    /\ \E returncode \in {0, 1, 2} :
          Step("main_end", <<"ansible-playbook", ReturnCode(returncode)>>)
    /\ UNCHANGED <<inputs, files, probe, prov, conf>>

---------------------------------------------------------------------------
(* main *)

\* line 430, then the interpreter ends with status 0
MainEnd ==
    /\ pc = "main_end"
    /\ Exit(0, <<"log:Script completed">>)
    /\ UNCHANGED <<inputs, files, probe, prov, conf>>

Next ==
    \/ CheckTerraform \/ CheckAnsible \/ CheckAws \/ CheckSshKey
    \/ TerraformInit \/ PrepareTfvars \/ ReviewPrompt \/ TerraformPlan
    \/ ConfirmApply \/ TerraformApply \/ OutputInstanceIp \/ OutputInstanceId
    \/ Deployed
    \/ WinrmAttempt \/ WinrmWait \/ WinrmGiveUp
    \/ ConfigureStart \/ GetPassword \/ ReadInventory \/ EditInventory
    \/ WriteInventory \/ RetryLoop \/ RunPlaybook \/ ConfigureFinish
    \/ ConfirmDestroy \/ TerraformDestroy
    \/ AnsibleOnlyCheck \/ AnsibleOnlyRun
    \/ MainEnd

Spec == Init /\ [][Next]_vars

\* the positions of a run
Labels ==
    { "check_terraform", "check_ansible", "check_aws", "check_key",
      "tf_init", "tfvars", "review_prompt", "tf_plan", "apply_prompt",
      "tf_apply", "output_ip", "output_id", "deployed",
      "winrm_attempt", "winrm_wait", "winrm_give_up", "winrm_return",
      "get_password", "read_inventory", "edit_inventory", "write_inventory",
      "retry_loop", "run_playbook", "after_retry",
      "destroy_confirm", "tf_destroy", "ansible_only", "ansible_only_run",
      "main_end", "exited" }

\* lines 172, 179 and 320: the run waits on input()
AtPrompt ==
    \/ pc \in {"review_prompt", "apply_prompt"}
    \/ pc = "destroy_confirm" /\ ~args.force

\* the run leaves a position where it waits for no answer of the operator;
\* every step of Next changes pc
Advance ==
    /\ pc # "exited"
    /\ ~AtPrompt
    /\ pc' \in Labels \ {pc}

\* every external tool returns and the script goes on; the operator may
\* never answer
FairSpec == Spec /\ WF_pc(Advance)

TypeOK ==
    /\ pc \in Labels
    /\ exit_code \in {NoExit, 0, 1}
    /\ attempt \in 0..(max_attempts + 2)
    /\ retry_count \in 0..(max_retries + 2)
    /\ (pc = "exited") = (exit_code # NoExit)

---------------------------------------------------------------------------
(* The inventory edit on its own: the Credential Bridge of a run, and of a *)
(* second run with the same host and secret, over bounded inventories      *)

\*   ansible_password: "s     (a quoted value that goes on in the next line)
OpenQuoteLine == <<" ", "P", " ", QUOTE, "s">>
\*   b"
CloseQuoteLine == <<" ", "b", QUOTE>>
EmptyLine == <<>>
\* ansible_host: 1            (not indented)
BareHostLine == <<"H", " ", "1">>

LineShapes ==
    { KeyLine, HostLine, PasswordLine, OpenQuoteLine, CloseQuoteLine,
      EmptyLine, BareHostLine }

\* every file of at most MaxLines lines
EditInventories ==
    { Join(lines) : lines \in UNION { [1..n -> LineShapes] : n \in 0..MaxLines } }

\* an IPv4-like address and an address with a character outside [\d\.]
EditHosts == { <<"2">>, <<"2", "a">> }

\* a plain secret, one with a double quote, one with backslash-n, one with
\* a backslash before another letter
EditSecrets ==
    { <<"t">>, <<"t", QUOTE>>, <<BACKSLASH, "n">>, <<BACKSLASH, "s">> }

EditInit ==
    /\ pc = "read_inventory"
    /\ args = [action |-> "deploy", force |-> TRUE, skip_ansible |-> FALSE,
               environment |-> "staging", region |-> "eu-west-1",
               instance_type |-> "t3a.medium", elastic_ip |-> FALSE,
               create_rds |-> TRUE]
    /\ key_exists = TRUE
    /\ tfvars_exists = TRUE
    /\ template = DefaultTemplate
    /\ tfvars = DefaultTemplate
    /\ hosts_yml \in EditInventories
    /\ inv_readable \in BOOLEAN
    /\ trace = <<>>
    /\ exit_code = NoExit
    /\ attempt = 1
    /\ result = "open"
    /\ winrm_ready = TRUE
    /\ confirm = "none"
    /\ instance_ip \in EditHosts
    /\ instance_id = <<"i">>
    /\ password \in EditSecrets
    /\ content = <<>>
    /\ retry_count = 0
    /\ success = FALSE
    /\ hosts_yml0 = hosts_yml
    /\ hosts_yml1 = hosts_yml
    /\ edits = 0

\* the edit is applied once more with the same host and secret
EditAgain ==
    /\ pc = "retry_loop"
    /\ edits < 2
    /\ pc' = "read_inventory"
    /\ UNCHANGED <<inputs, files, trace, exit_code, probe, prov, conf>>

EditNext == ReadInventory \/ EditInventory \/ WriteInventory \/ EditAgain

EditSpec == EditInit /\ [][EditNext]_vars

RECURSIVE Lines(_)
\* str.split("\n")
Lines(s) ==
    LET e == RunEnd(s, 1, {c \in {s[x] : x \in 1..Len(s)} : c # NL}) IN
    IF e > Len(s) THEN <<s>>
    ELSE <<SubSeq(s, 1, e - 1)>> \o Lines(SubSeq(s, e + 1, Len(s)))

\* the field names of a file in the order they appear
Keys(s) == SelectSeq(s, LAMBDA c : c \in {"H", "P"})

\* the lines of before that hold the field key and are not the same in after
ChangedLines(before, after, key) ==
    { i \in 1..Len(Lines(before)) :
        /\ Contains(Lines(before)[i], key)
        /\ \/ i > Len(Lines(after))
           \/ Lines(after)[i] # Lines(before)[i] }

\* C4: applying the edit twice with the same host and secret gives the same
\* file as applying it once.
C4_EditIdempotent == edits = 2 => hosts_yml = hosts_yml1

\* C5: the edit keeps the number of lines and the order of the keys, and
\* every line that holds neither the host field nor the secret field is the
\* same before and after.
C5_EditKeepsLinesAndKeys ==
    edits >= 1 =>
        /\ Len(Lines(hosts_yml1)) = Len(Lines(hosts_yml0))
        /\ Keys(hosts_yml1) = Keys(hosts_yml0)
        /\ \A i \in 1..Len(Lines(hosts_yml0)) :
              (~Contains(Lines(hosts_yml0)[i], "H")
                 /\ ~Contains(Lines(hosts_yml0)[i], "P"))
              => /\ i <= Len(Lines(hosts_yml1))
                 /\ Lines(hosts_yml1)[i] = Lines(hosts_yml0)[i]

\* C6: in an inventory with more than one host field or more than one
\* secret field the edit changes at most one host value and at most one
\* secret value, so the other hosts' values survive.
C6_ExtraHostsSurvive ==
    (edits >= 1 /\ (Count(hosts_yml0, "H") > 1 \/ Count(hosts_yml0, "P") > 1)) =>
        /\ Cardinality(ChangedLines(hosts_yml0, hosts_yml1, "H")) <= 1
        /\ Cardinality(ChangedLines(hosts_yml0, hosts_yml1, "P")) <= 1

---------------------------------------------------------------------------
(* Properties of a run *)

\* the event was appended to the trace
Has(e) == \E i \in 1..Len(trace) : trace[i] = e

\* the events of the trace that belong to set, in order
Proj(set) == SelectSeq(trace, LAMBDA e : e \in set)

IsPrefix(p, q) == Len(p) <= Len(q) /\ SubSeq(q, 1, Len(p)) = p

Last(q) == q[Len(q)]

\* engine invocations and stabilization sleeps, in order
RetryEvents == Proj({"ansible-playbook", "sleep:stabilize"})

\* C1: the retry loop invokes the configuration engine at most
\* max_retries + 1 = 3 times, and every stabilization sleep lies between two
\* consecutive invocations: invocations and sleeps alternate, beginning
\* with an invocation, and once the next invocation has started they end
\* with an invocation.
C1_RetryBoundAndSleeps ==
    /\ Count(trace, "ansible-playbook") <= max_retries + 1
    /\ max_retries + 1 = 3
    /\ \A i \in 1..Len(RetryEvents) :
          RetryEvents[i] =
              IF i % 2 = 1 THEN "ansible-playbook" ELSE "sleep:stabilize"
    /\ (pc # "run_playbook" /\ Len(RetryEvents) > 0)
          => Last(RetryEvents) = "ansible-playbook"

\* the loop ended after three failed invocations and two sleeps
C1_Witness ==
    /\ pc = "after_retry"
    /\ ~success
    /\ RetryEvents = <<"ansible-playbook", "sleep:stabilize", "ansible-playbook",
                       "sleep:stabilize", "ansible-playbook">>

\* connection attempts and polling sleeps, in order
PollEvents == Proj({"connect", "sleep:poll"})

PollingPcs == {"winrm_attempt", "winrm_wait", "winrm_give_up"}

C2_StateInv ==
    /\ Count(trace, "connect") <= max_attempts
    /\ result = "open" =>
          /\ winrm_ready
          /\ pc \notin PollingPcs
          /\ Last(PollEvents) = "connect"
          /\ Count(trace, "connect") = attempt

\* C2: the prober makes at most max_attempts connection attempts, and the
\* first attempt that succeeds makes it return True at once: the prober is
\* left with True, and no attempt and no sleep ever follows.
C2_ReturnsAtFirstSuccess ==
    /\ []C2_StateInv
    /\ [][result = "open" => PollEvents' = PollEvents]_vars

\* the third attempt succeeded, after two sleeps, and the run went on
C2_Witness ==
    /\ result = "open"
    /\ winrm_ready
    /\ attempt = 3
    /\ PollEvents = <<"connect", "sleep:poll", "connect", "sleep:poll", "connect">>
    /\ pc = "get_password"

\* C3: when no attempt succeeds, the prober returns False to its caller
\* after exactly max_attempts attempts (and max_attempts - 1 sleeps); while
\* it polls and when it returns the process has not exited and no exception
\* has escaped.
C3_ExhaustedReturnsFalse ==
    /\ pc \in PollingPcs \cup {"winrm_return"} =>
          /\ exit_code = NoExit
          /\ ~Has("traceback")
    /\ (pc = "winrm_return" /\ result # "open") =>
          /\ ~winrm_ready
          /\ Count(trace, "connect") = max_attempts
          /\ Count(trace, "sleep:poll") = max_attempts - 1
          /\ Last(trace) = "log:Instance not ready after max_attempts"

\* the prober returned after a last attempt that raised
C3_Witness ==
    /\ pc = "winrm_return"
    /\ result = "raise"
    /\ attempt = max_attempts

\* the prober gave up
Exhausted == Has("log:Instance not ready after max_attempts")

\* C7: once readiness polling is exhausted nothing of the configuration
\* happens: the secret is not retrieved, the inventory is not written, the
\* engine is not invoked; the manual command is logged and the process ends
\* with status 0.
C7_ExhaustedSkipsConfiguration ==
    Exhausted =>
        /\ ~Has("aws ec2 get-password-data")
        /\ ~Has("read hosts.yml")
        /\ ~Has("write hosts.yml")
        /\ hosts_yml = hosts_yml0
        /\ edits = 0
        /\ ~Has("ansible-playbook")
        /\ pc \in {"winrm_return", "main_end", "exited"}
        /\ pc \in {"main_end", "exited"} => Has("log:Manual command")
        /\ pc = "exited" => exit_code = 0

\* a run that ended after the prober gave up
C7_Witness ==
    /\ Exhausted
    /\ pc = "exited"
    /\ Count(trace, "connect") = max_attempts

\* C8: when the engine fails on each of its max_retries + 1 attempts, the
\* exhaustion is logged, control returns to main (which logs its last line)
\* and the process ends with status 0.
C8_ExhaustedRetriesExitZero ==
    (retry_count = max_retries + 1 /\ pc \in {"main_end", "exited"}) =>
        /\ Count(trace, "ansible-playbook") = max_retries + 1
        /\ ~success
        /\ Has("log:Playbook failed after all attempts")
        /\ pc = "exited" =>
              /\ exit_code = 0
              /\ Last(trace) = "log:Script completed"

\* a run that ended after three failed invocations of the engine
C8_Witness ==
    /\ pc = "exited"
    /\ retry_count = max_retries + 1
    /\ Count(trace, "ansible-playbook") = 3

\* the operator was asked whether to apply and did not answer y
Declined == ~args.force /\ Has("input:apply") /\ Lower(confirm) # "y"

\* C9: apply runs only with force or after the operator answered y (in
\* either case); when the operator declines, the process has ended with
\* status 0 and neither apply nor any later step has run.
C9_ApplyGated ==
    /\ Has("terraform apply") => (args.force \/ Lower(confirm) = "y")
    /\ Declined =>
          /\ pc = "exited"
          /\ exit_code = 0
          /\ ~Has("terraform apply")
          /\ ~Has("terraform output instance_public_ip")
          /\ ~Has("terraform output instance_id")
          /\ ~Has("connect")
          /\ ~Has("write hosts.yml")
          /\ hosts_yml = hosts_yml0
          /\ ~Has("ansible-playbook")

\* the operator declined the plan
C9_Witness ==
    /\ Declined
    /\ Has("terraform plan")
    /\ pc = "exited"

\* the steps of the Provisioning Phase, in order
ProvisioningOrder ==
    <<"terraform init", "write terraform.tfvars", "terraform plan",
      "terraform apply", "terraform output instance_public_ip",
      "terraform output instance_id">>

\* the same when the variables file exists already
ProvisioningOrderNoPrep ==
    <<"terraform init", "terraform plan", "terraform apply",
      "terraform output instance_public_ip", "terraform output instance_id">>

ProvisionerOps ==
    {"terraform init", "terraform plan", "terraform apply",
     "terraform output instance_public_ip", "terraform output instance_id"}

ProvisioningEvents ==
    Proj({ProvisioningOrder[i] : i \in 1..Len(ProvisioningOrder)})

\* C10: the steps of the Provisioning Phase happen in the order init,
\* variables file, plan, apply, address, identifier (the variables file
\* only when it did not exist), and a provisioner operation that exits
\* non-zero is the last thing the process does: it ends with status 1.
C10_ProvisioningOrderAndFatal ==
    /\ \/ IsPrefix(ProvisioningEvents, ProvisioningOrder)
       \/ IsPrefix(ProvisioningEvents, ProvisioningOrderNoPrep)
    /\ \A i \in 1..Len(trace) :
          (trace[i] \in ProvisionerOps /\ i < Len(trace)
              /\ trace[i + 1] = "log:Command failed")
          => /\ Len(trace) = i + 1
             /\ pc = "exited"
             /\ exit_code = 1
    /\ pc \in {"winrm_attempt", "get_password", "retry_loop"}
          => ProvisioningEvents \in {ProvisioningOrder, ProvisioningOrderNoPrep}

\* the read of the second output failed after everything before it ran
C10_Witness ==
    /\ pc = "exited"
    /\ exit_code = 1
    /\ ProvisioningEvents = ProvisioningOrder
    /\ Last(trace) = "log:Command failed"

\* the event e was directly followed by the log line of a failed command
FailedCommand(e) ==
    \E i \in 1..(Len(trace) - 1) :
        trace[i] = e /\ trace[i + 1] = "log:Command failed"

\* C11: in a deploy run that retrieved a non-empty secret and cannot read
\* the inventory, the process aborts at once with a non-zero status and
\* the engine is not invoked.
C11_UnreadableInventoryFatal ==
    (args.action = "deploy" /\ ~inv_readable
        /\ Has("log:Password retrieved successfully")
        /\ pc \notin {"read_inventory"}) =>
        /\ pc = "exited"
        /\ exit_code = 1
        /\ ~Has("ansible-playbook")

\* what changes the state of the infrastructure, of the variables file, of
\* the inventory or of the instance
StateChangingOps ==
    {"terraform init", "write terraform.tfvars", "terraform plan",
     "terraform apply", "terraform destroy", "write hosts.yml",
     "ansible-playbook"}

\* the three checks, each passed
PassedChecks ==
    <<"terraform --version", "log:Terraform version",
      "ansible --version", "log:Ansible version",
      "aws sts get-caller-identity", "log:AWS credentials valid">>

CheckFailed ==
    \/ Has("log:Terraform not found")
    \/ Has("log:Ansible not found")
    \/ Has("log:AWS credentials not configured")

CheckPcs == {"check_terraform", "check_ansible", "check_aws", "check_key"}

\* C12: for every action a state-changing step happens only after the three
\* prerequisite checks have passed; a failed check ends the process with
\* status 1 and none of those steps done; and up to the end of the checker
\* the only thing that can have changed is the key pair.
C12_ChecksBeforeAnyChange ==
    /\ (\E i \in 1..Len(trace) : trace[i] \in StateChangingOps \cup {"ssh-keygen"})
          => IsPrefix(PassedChecks, trace)
    /\ CheckFailed =>
          /\ pc = "exited"
          /\ exit_code = 1
          /\ \A i \in 1..Len(trace) :
                trace[i] \notin StateChangingOps \cup {"ssh-keygen"}
          /\ hosts_yml = hosts_yml0
    /\ pc \in CheckPcs =>
          /\ \A i \in 1..Len(trace) : trace[i] \notin StateChangingOps
          /\ hosts_yml = hosts_yml0
          /\ edits = 0

\* the credentials check failed after the two tools were found
C12_Witness ==
    /\ pc = "exited"
    /\ Has("log:AWS credentials not configured")
    /\ Has("log:Ansible version")

\* the operator was asked whether to destroy and did not answer y
DeclinedDestroy == ~args.force /\ Has("input:destroy") /\ Lower(confirm) # "y"

\* C13: destroy runs only with force or after the operator answered y;
\* declining ends the process with status 0 without destroy; a destroy
\* that exits non-zero ends the process with status 1 and success is not
\* logged.
C13_DestroyGated ==
    /\ Has("terraform destroy") => (args.force \/ Lower(confirm) = "y")
    /\ DeclinedDestroy =>
          /\ pc = "exited"
          /\ exit_code = 0
          /\ ~Has("terraform destroy")
    /\ FailedCommand("terraform destroy") =>
          /\ pc = "exited"
          /\ exit_code = 1
          /\ ~Has("log:Infrastructure destroyed successfully")
          /\ Last(trace) = "log:Command failed"

\* the operator declined the destruction
C13_Witness ==
    /\ DeclinedDestroy
    /\ pc = "exited"

---------------------------------------------------------------------------
(* The preparation of the variables file on its own, over bounded          *)
(* templates and every request                                             *)

\* the five fields with values that are not the defaults
TfvarsModified ==
    << <<"aws_region = ", "ap-south-1">>, <<"environment = ", "prod">>,
       <<"instance_type = ", "m5.large">>, <<"use_elastic_ip = ", "true">>,
       <<"create_rds = ", "true">> >>

\* lines an operator can add: a comment, a comment that quotes a default
\* assignment, and the assignment of a longer name that ends like a field
ExtraLines ==
    { CommentLine,
      <<"# ", "environment = ", "dev">>,
      <<"db_", "instance_type = ", "t3a.medium">> }

\* templates: the five assignments, each with its default or with another
\* value, followed by at most MaxExtraLines more lines
TfvarsTemplates ==
    { Join([i \in 1..5 |-> IF i \in modified THEN TfvarsModified[i]
                                              ELSE TfvarsDefaults[i]] \o extra) :
        modified \in SUBSET (1..5),
        extra \in UNION { [1..n -> ExtraLines] : n \in 0..MaxExtraLines } }

TfvarsInit ==
    /\ pc = "tfvars"
    /\ args \in [action : {"deploy"}, force : BOOLEAN, skip_ansible : {FALSE},
                 environment : {"dev", "staging"},
                 region : {"us-east-1", "eu-west-1"},
                 instance_type : {"t3a.medium", "t3.large"},
                 elastic_ip : BOOLEAN, create_rds : BOOLEAN]
    /\ key_exists = TRUE
    /\ tfvars_exists \in BOOLEAN
    /\ template \in TfvarsTemplates
    /\ tfvars = IF tfvars_exists THEN DefaultTemplate ELSE <<>>
    /\ hosts_yml = Join(<<KeyLine, HostLine, PasswordLine>>)
    /\ inv_readable = TRUE
    /\ trace = <<"terraform init">>
    /\ exit_code = NoExit
    /\ attempt = 0
    /\ result = "none"
    /\ winrm_ready = FALSE
    /\ confirm = "none"
    /\ instance_ip = <<>>
    /\ instance_id = <<>>
    /\ password = <<>>
    /\ content = <<>>
    /\ retry_count = 0
    /\ success = FALSE
    /\ hosts_yml0 = hosts_yml
    /\ hosts_yml1 = hosts_yml
    /\ edits = 0

TfvarsNext == PrepareTfvars \/ ReviewPrompt

TfvarsSpec == TfvarsInit /\ [][TfvarsNext]_vars

\* the names of the five fields
FieldNames == { TfvarsDefaults[i][1] : i \in 1..5 }

\* the line is the assignment of one of the five fields
IsFieldLine(line) == Len(line) = 2 /\ line[1] \in FieldNames

\* the five assignments a request asks for
RequestLines(a) ==
    { <<"environment = ", a.environment>>, <<"aws_region = ", a.region>>,
      <<"instance_type = ", a.instance_type>>,
      <<"use_elastic_ip = ", BoolText(a.elastic_ip)>>,
      <<"create_rds = ", BoolText(a.create_rds)>> }

\* C14: the variables document written when none existed holds the five
\* values of the request, and every line of the template that is not one of
\* the five assignments is in the document unchanged, at the same place.
C14_TfvarsSubstitution ==
    Has("write terraform.tfvars") =>
        /\ \A line \in RequestLines(args) :
              \E i \in 1..Len(Lines(tfvars)) : Lines(tfvars)[i] = line
        /\ Len(Lines(tfvars)) = Len(Lines(template))
        /\ \A i \in 1..Len(Lines(template)) :
              ~IsFieldLine(Lines(template)[i])
                  => Lines(tfvars)[i] = Lines(template)[i]

\* configuration-only mode has read an inventory without a secret field
NoSecretField ==
    /\ args.action = "ansible-only"
    /\ Has("read hosts.yml")
    /\ ~Contains(hosts_yml0, "P")

\* C15 as stated: in configuration-only mode an inventory without a secret
\* field makes the run skip the engine and end cleanly, with status 0.
C15_NoSecretFieldRecoverable ==
    NoSecretField =>
        /\ ~Has("ansible-playbook")
        /\ pc = "exited" => exit_code = 0

\* C15 as amended: in configuration-only mode an inventory without a secret
\* field makes the run skip the engine, log the error and end with
\* status 1, before main's last line.
C15_NoSecretFieldFatal ==
    NoSecretField =>
        /\ ~Has("ansible-playbook")
        /\ Has("log:Password not found in inventory")
        /\ pc = "exited"
        /\ exit_code = 1
        /\ ~Has("log:Script completed")

\* configuration-only mode ended on an inventory without a secret field
C15_Witness ==
    /\ NoSecretField
    /\ pc = "exited"
    /\ Last(trace) = "log:Manually add ansible_password"

\* the retrieval command succeeded and printed nothing
EmptySecret ==
    /\ Has("aws ec2 get-password-data")
    /\ ~FailedCommand("aws ec2 get-password-data")
    /\ password = <<>>

\* C16: an empty secret is not fatal: the inventory is left as it was, the
\* engine is not invoked, the manual retrieval command is logged and the
\* process ends with status 0; a retrieval command that fails does not take
\* this path: it ends the process with status 1.
C16_EmptySecretRetryLater ==
    /\ EmptySecret =>
          /\ Has("log:Could not retrieve password")
          /\ Has("log:Manual password command")
          /\ ~Has("read hosts.yml")
          /\ ~Has("write hosts.yml")
          /\ hosts_yml = hosts_yml0
          /\ edits = 0
          /\ ~Has("ansible-playbook")
          /\ pc \in {"main_end", "exited"}
          /\ pc = "exited" => exit_code = 0
    /\ FailedCommand("aws ec2 get-password-data") =>
          /\ ~Has("log:Could not retrieve password")
          /\ ~Has("log:Manual password command")
          /\ pc = "exited"
          /\ exit_code = 1
    /\ Has("log:Could not retrieve password") => EmptySecret

\* a run that ended after an empty secret
C16_Witness ==
    /\ EmptySecret
    /\ pc = "exited"
    /\ Last(trace) = "log:Script completed"

\* the run is a deploy in or after the retry loop
InRetryController ==
    /\ args.action = "deploy"
    /\ pc \in {"retry_loop", "run_playbook", "after_retry", "main_end", "exited"}
    /\ Has("log:Starting playbook")

\* invocations of the engine and their exit status, in order
EngineEvents == Proj({"ansible-playbook", "returncode:0", "returncode:nonzero"})

\* the retry loop is over
LoopDone == Has("log:Deployment completed")

C17_StateInv ==
    InRetryController =>
        /\ retry_count = Count(trace, "returncode:nonzero")
        /\ retry_count \in 0..(max_retries + 1)
        /\ success = Has("returncode:0")
        /\ Count(trace, "returncode:0") <= 1
        /\ success => Last(EngineEvents) = "returncode:0"
        /\ Count(trace, "sleep:stabilize") <= max_retries
        /\ Has("log:Playbook failed after all attempts")
              = (LoopDone /\ Count(trace, "returncode:nonzero") = max_retries + 1)
        /\ LoopDone => (success = (retry_count < max_retries + 1))
        /\ (LoopDone /\ ~success) =>
              EngineEvents = <<"ansible-playbook", "returncode:nonzero",
                               "ansible-playbook", "returncode:nonzero",
                               "ansible-playbook", "returncode:nonzero">>

\* C17: the retry controller.  retry_count is the number of failed
\* invocations and stays within 0..max_retries + 1; status 0 ends the loop
\* in Success and no invocation follows; after a non-zero status another
\* invocation follows exactly when fewer than max_retries retries have been
\* made; the loop ends Exhausted exactly when max_retries + 1 invocations in
\* a row returned non-zero.
C17_RetryController ==
    /\ []C17_StateInv
    /\ [][(pc = "retry_loop" /\ InRetryController) =>
             /\ success => (pc' = "after_retry" /\ EngineEvents' = EngineEvents)
             /\ ~success =>
                   ((pc' = "run_playbook")
                       = (Count(trace, "sleep:stabilize") < max_retries))
             /\ (~success /\ pc' # "run_playbook") => pc' = "after_retry"]_vars

\* the loop ended in Success on the second retry
C17_Witness ==
    /\ InRetryController
    /\ LoopDone
    /\ success
    /\ retry_count = max_retries

\* operator input taken so far
Inputs == Proj({"input:review", "input:apply", "input:destroy"})

C18_StateInv ==
    args.force =>
        /\ Inputs = <<>>
        /\ pc \notin {"review_prompt", "apply_prompt"}
        /\ (/\ args.action = "deploy"
            /\ pc = "exited"
            /\ winrm_ready
            /\ attempt = 3
            /\ success
            /\ retry_count = 0) =>
               /\ exit_code = 0
               /\ Count(trace, "sleep:poll") = 2
               /\ Count(trace, "connect") = 3
               /\ Count(trace, "ansible-playbook") = 1
               /\ Count(trace, "sleep:stabilize") = 0

\* C18: with force set no run waits for the operator: the review prompt,
\* the apply confirmation and the destroy confirmation are not reached; as
\* every external tool returns, a forced run ends; and the forced deploy
\* whose third connection attempt succeeds and whose first engine run
\* succeeds ends with status 0 after two polling sleeps and one engine run.
C18_ForcedRunNeverWaits ==
    /\ []C18_StateInv
    /\ [](args.force => <>(pc = "exited"))

\* the forced deploy of the scenario, which wrote the variables file
C18_Witness ==
    /\ args.force
    /\ args.action = "deploy"
    /\ Has("write terraform.tfvars")
    /\ pc = "exited"
    /\ winrm_ready
    /\ attempt = 3
    /\ success
    /\ retry_count = 0

\* C19: the secret is logged only in the summary of a configuration that
\* ended in Success: never before the retry loop is over, and not when the
\* loop ended Exhausted or the configuration was skipped or aborted.
C19_SecretLoggedOnlyOnSuccess ==
    Has("log:Administrator Password") =>
        /\ Has("log:Deployment completed")
        /\ pc \in {"main_end", "exited"}
        /\ success

\* configuration-only mode has found the secret field in the inventory
InventoryChecked ==
    /\ args.action = "ansible-only"
    /\ Has("read hosts.yml")
    /\ Contains(hosts_yml0, "P")

\* C20: configuration-only mode does no readiness polling, no secret
\* retrieval, no inventory edit and no sleep; once the inventory has the
\* secret field the engine is invoked exactly once, and the process ends
\* with status 0 for every exit status of the engine.
C20_AnsibleOnlyOnce ==
    args.action = "ansible-only" =>
        /\ Proj({"connect", "sleep:poll", "sleep:stabilize",
                 "aws ec2 get-password-data", "write hosts.yml",
                 "log:Playbook failed, will retry"}) = <<>>
        /\ hosts_yml = hosts_yml0
        /\ edits = 0
        /\ password = <<>>
        /\ Count(trace, "ansible-playbook") <= 1
        /\ Has("ansible-playbook") =>
              /\ InventoryChecked
              /\ pc \in {"main_end", "exited"}
        /\ (InventoryChecked /\ pc \in {"main_end", "exited"}) =>
              Count(trace, "ansible-playbook") = 1
        /\ (InventoryChecked /\ pc = "exited") => exit_code = 0

\* configuration-only mode ended after an engine run that failed
C20_Witness ==
    /\ InventoryChecked
    /\ pc = "exited"
    /\ Has("returncode:nonzero")
    /\ exit_code = 0

====
